---- MODULE Spec2Model ----
(***************************************************************************)
(* Model of logging/logging/__init__.py: the severity table, the logger    *)
(* registry, Logger, Handler (and its stream/file variants), Formatter and *)
(* LogRecord.  Strings that are rendered are sequences of atoms (short     *)
(* strings), so that substring tests and substitution are computed.        *)
(***************************************************************************)
EXTENDS Integers, Sequences, FiniteSets, TLC

VARIABLES _level, _level_dict, _loggers, loggers, handlers, formatters,
          converterCalls, last, pc

vars == <<_level, _level_dict, _loggers, loggers, handlers, formatters,
          converterCalls, last, pc>>

(* ------------------------------ constants ------------------------------ *)
CRITICAL == 50
ERROR == 40
WARNING == 30
INFO == 20
DEBUG == 10
LLDEBUG == 5
NOTSET == 0

(* ------------------------------- bounds -------------------------------- *)
MaxHandlers == 2
MaxAttach == 3
MaxFmtLen == 3
MaxCalls == 2

(* Python's None, for string-valued slots. *)
None == "<None>"

(* x or y, for integers (0 is falsy). *)
Or(x, y) == IF x # 0 THEN x ELSE y

(* A string is truthy when it is neither None nor empty. *)
Truthy(s) == s # None /\ s # ""

(* ------------------------------ input sets ----------------------------- *)
Names == {None, "", "root", "svc"}
Thresholds == {NOTSET, DEBUG, WARNING}
Severities == {LLDEBUG, DEBUG, INFO, 25, WARNING}
Filenames == {None, "app.log"}
Streams == {None, "S"}
LevelNames == {"NOTICE", "INFO"}

DefaultFmt == <<"%", "(message)", "s">>
LevelNameFmt == <<"%", "(levelname)", "s", ":", "%", "(name)", "s", ":", "%", "(message)", "s">>
Formats == {<<>>, LevelNameFmt}

Messages == { [msg |-> <<"detail">>, args |-> <<>>],
              [msg |-> <<"started ", "%s">>, args |-> <<"v1">>],
              [msg |-> <<"started ", "%s">>, args |-> <<>>] }

(* ------------------------------ Formatter ------------------------------ *)
(* Formatter.__init__: fmt or "%(message)s"; the style is checked.         *)
FormatterStyleOk(style) == style \in {"%", "{"}

NewFormatter(fmt, style) ==
    [fmt |-> IF fmt = <<>> THEN DefaultFmt ELSE fmt, style |-> style]

(* needle in hay, as a contiguous run of atoms *)
Contains(hay, needle) ==
    \E i \in 1..Len(hay) :
        /\ i + Len(needle) - 1 <= Len(hay)
        /\ \A k \in 1..Len(needle) : hay[i + k - 1] = needle[k]

(* usesTime looking for "(asctime)" without the leading "%" *)
usesTimeNoPercent(f) ==
    IF f.style = "%" THEN Contains(f.fmt, <<"(asctime)">>)
    ELSE Contains(f.fmt, <<"{", "asctime">>)

(* Formatter.usesTime *)
usesTime(f) ==
    IF f.style = "%" THEN Contains(f.fmt, <<"%", "(asctime)">>)
    ELSE Contains(f.fmt, <<"{", "asctime">>)

(* a result with atoms put in front of its output *)
Prepend(atoms, r) == [raised |-> r.raised, out |-> atoms \o r.out]

Raise(e) == [raised |-> e, out |-> <<>>]

(* msg % args: every "%s" atom takes the next argument. *)
RECURSIVE Interp(_, _)
Interp(msg, args) ==
    IF msg = <<>> THEN (IF args = <<>> THEN [raised |-> None, out |-> <<>>] ELSE Raise("TypeError"))
    ELSE IF Head(msg) = "%s" THEN
        IF args = <<>> THEN Raise("TypeError")
        ELSE Prepend(<<Head(args)>>, Interp(Tail(msg), Tail(args)))
    ELSE Prepend(<<Head(msg)>>, Interp(Tail(msg), args))

(* record.__dict__[key], as atoms; keys are the atoms "(name)" of the %    *)
(* style or "name" of the { style.                                         *)
FieldKey(a) ==
    CASE a \in {"(asctime)", "asctime"} -> "asctime"
      [] a \in {"(levelname)", "levelname"} -> "levelname"
      [] a \in {"(name)", "name"} -> "name"
      [] a \in {"(message)", "message"} -> "message"
      [] OTHER -> None

HasField(d, a) == FieldKey(a) # None /\ FieldKey(a) \in DOMAIN d

PercentKeys == {"(asctime)", "(levelname)", "(name)", "(message)"}

(* fmt % record.__dict__ *)
RECURSIVE PercentFormat(_, _)
PercentFormat(fmt, d) ==
    IF fmt = <<>> THEN [raised |-> None, out |-> <<>>]
    ELSE IF Head(fmt) # "%" THEN Prepend(<<Head(fmt)>>, PercentFormat(Tail(fmt), d))
    ELSE IF Len(fmt) >= 2 /\ fmt[2] = "%" THEN
        Prepend(<<"%">>, PercentFormat(SubSeq(fmt, 3, Len(fmt)), d))
    ELSE IF Len(fmt) >= 3 /\ fmt[2] \in PercentKeys /\ fmt[3] = "s" THEN
        IF ~HasField(d, fmt[2]) THEN Raise("KeyError")
        ELSE Prepend(d[FieldKey(fmt[2])], PercentFormat(SubSeq(fmt, 4, Len(fmt)), d))
    ELSE IF Len(fmt) >= 2 /\ fmt[2] = "s" THEN Raise("TypeError")
    ELSE Raise("ValueError")

(* index of the first "}" at or after i, 0 when there is none *)
RECURSIVE CloseAt(_, _)
CloseAt(fmt, i) ==
    IF i > Len(fmt) THEN 0
    ELSE IF fmt[i] = "}" THEN i
    ELSE CloseAt(fmt, i + 1)

(* fmt.format with the record's __dict__ as keywords *)
RECURSIVE BraceFormat(_, _)
BraceFormat(fmt, d) ==
    IF fmt = <<>> THEN [raised |-> None, out |-> <<>>]
    ELSE IF Head(fmt) = "{" THEN
        IF Len(fmt) >= 2 /\ fmt[2] = "{" THEN
            Prepend(<<"{">>, BraceFormat(SubSeq(fmt, 3, Len(fmt)), d))
        ELSE IF CloseAt(fmt, 2) = 0 THEN Raise("ValueError")
        ELSE IF CloseAt(fmt, 2) # 3 \/ ~HasField(d, fmt[2]) \/ fmt[2] \in PercentKeys
             THEN Raise("KeyError")
        ELSE Prepend(d[FieldKey(fmt[2])], BraceFormat(SubSeq(fmt, 4, Len(fmt)), d))
    ELSE IF Head(fmt) = "}" THEN
        IF Len(fmt) >= 2 /\ fmt[2] = "}" THEN
            Prepend(<<"}">>, BraceFormat(SubSeq(fmt, 3, Len(fmt)), d))
        ELSE Raise("ValueError")
    ELSE Prepend(<<Head(fmt)>>, BraceFormat(Tail(fmt), d))

(* Formatter.formatTime: one converter call, then datefmt.format of it. *)
formatTime(f, record) == <<"<asctime>">>

(* str(x) of a record's levelname *)
LevelNameAtoms(ln) == IF ln = None THEN <<"None">> ELSE <<ln>>

(* record.__dict__ as format sees it: asctime is set only when usesTime() *)
RecordDict(f, record, message, ut) ==
    IF ut THEN [name |-> <<record.name>>, levelname |-> LevelNameAtoms(record.levelname),
                message |-> message, asctime |-> formatTime(f, record)]
    ELSE [name |-> <<record.name>>, levelname |-> LevelNameAtoms(record.levelname),
          message |-> message]

WithConv(r, n) == [raised |-> r.raised, out |-> r.out, conv |-> n]

(* the last two steps of Formatter.format: exc_info, then the substitution *)
formatFields(f, record, d, n) ==
    IF record.exc_info # None THEN WithConv(Raise("AttributeError"), n)
    ELSE IF f.style = "%" THEN WithConv(PercentFormat(f.fmt, d), n)
    ELSE WithConv(BraceFormat(f.fmt, d), n)

(* Formatter.format after  record.message = record.msg % record.args *)
formatMessage(f, record, m) ==
    IF m.raised # None THEN WithConv(m, 0)
    ELSE IF usesTime(f) THEN formatFields(f, record, RecordDict(f, record, m.out, TRUE), 1)
    ELSE formatFields(f, record, RecordDict(f, record, m.out, FALSE), 0)

(* Formatter.format: [raised, out, conv] with conv the converter calls.  *)
format(f, record) == formatMessage(f, record, Interp(record.msg, record.args))

(* --------------------------- severity table ---------------------------- *)
LevelDictInit ==
    (CRITICAL :> "CRITICAL") @@ (ERROR :> "ERROR") @@ (WARNING :> "WARNING") @@
    (INFO :> "INFO") @@ (DEBUG :> "DEBUG") @@ (LLDEBUG :> "LLDEBUG")

(* _level_dict.get(level, None) *)
DictGet(dict, level) == IF level \in DOMAIN dict THEN dict[level] ELSE None

(* Logger._level_str: "LVL%s" % level for an unregistered level *)
_level_str(level) ==
    LET l == DictGet(_level_dict, level)
    IN  IF l # None THEN <<l>> ELSE <<"LVL", ToString(level)>>

(* ------------------------------ LogRecord ------------------------------ *)
LogRecord(name, level, msg, args, exc_info) ==
    [name |-> name, levelno |-> level, levelname |-> DictGet(_level_dict, level),
     msg |-> msg, args |-> args, exc_info |-> exc_info]

(* ------------------------------- objects ------------------------------- *)
NewId(heap) == Cardinality(DOMAIN heap) + 1

(* Logger.__init__: level is the class attribute NOTSET, handlers is None *)
NewLogger(name) == [name |-> name, level |-> NOTSET, hasList |-> FALSE, handlers |-> <<>>]

(* Logger.addHandler on a logger record: the list is created on first use *)
addHandler(lg, h) ==
    [lg EXCEPT !.hasList = TRUE,
               !.handlers = Append(IF lg.hasList THEN lg.handlers ELSE <<>>, h)]

(* Handler.__init__ / StreamHandler.__init__ / FileHandler.__init__: the     *)
(* sink of a stream handler is stream or sys.stderr.                        *)
NewHandlerObj(kind, level, fid, sink) ==
    [kind |-> kind, level |-> level, formatter |-> fid, sink |-> sink]

StreamSink(stream) == IF Truthy(stream) THEN stream ELSE "stderr"

(* getLogger without the  name in _loggers  test *)
getLoggerFresh(name, reg, lgs, hs, fs) ==
    LET n == IF name = None THEN "root" ELSE name
        l == NewId(lgs)
    IN  [ret |-> l, reg |-> (n :> l) @@ reg, lgs |-> (l :> NewLogger(n)) @@ lgs,
         hs |-> hs, fs |-> fs]

(* getLogger on a given registry: [ret, reg, lgs, hs, fs] *)
getLogger(name, reg, lgs, hs, fs) ==
    LET n == IF name = None THEN "root" ELSE name IN
    IF n \in DOMAIN reg THEN [ret |-> reg[n], reg |-> reg, lgs |-> lgs, hs |-> hs, fs |-> fs]
    ELSE LET l == NewId(lgs) IN
         IF n = "root" THEN
             LET sh == NewId(hs)
                 f == NewId(fs)
             IN  [ret |-> l,
                  reg |-> (n :> l) @@ reg,
                  lgs |-> (l :> addHandler(NewLogger(n), sh)) @@ lgs,
                  hs |-> (sh :> NewHandlerObj("StreamHandler", NOTSET, f, StreamSink(None))) @@ hs,
                  fs |-> (f :> NewFormatter(<<>>, "%")) @@ fs]
         ELSE [ret |-> l, reg |-> (n :> l) @@ reg, lgs |-> (l :> NewLogger(n)) @@ lgs,
               hs |-> hs, fs |-> fs]

(* the module-level  root = getLogger()  on the empty registry *)
Imported == getLogger(None, <<>>, <<>>, <<>>, <<>>)
root == Imported.ret

(* ------------------------------ dispatch ------------------------------- *)
Ev(ev, h, sink, line) == [ev |-> ev, h |-> h, sink |-> sink, line |-> line]

NoEvents == [events |-> <<>>, raised |-> None, conv |-> 0]

(* the events of a call, then those of what it called *)
After(evs, r) == [events |-> evs \o r.events, raised |-> r.raised, conv |-> r.conv]

(* self._stream.write(formatted + self.terminator), or the exception of format *)
write(h, r) ==
    IF r.raised # None THEN [events |-> <<>>, raised |-> r.raised, conv |-> r.conv]
    ELSE [events |-> <<Ev("write", h, handlers[h].sink, r.out \o <<"\n">>)>>,
          raised |-> None, conv |-> r.conv]

(* Handler.emit and its overrides: [events, raised, conv] *)
emit(h, record) ==
    IF handlers[h].kind = "Handler" THEN
        [events |-> <<Ev("emit", h, None, <<>>)>>, raised |-> "NotImplementedError", conv |-> 0]
    ELSE After(<<Ev("emit", h, None, <<>>)>>,
               write(h, format(formatters[handlers[h].formatter], record)))

(* handle with > for >= *)
handleStrict(h, record) ==
    IF record.levelno > Or(handlers[h].level, _level)
    THEN After(<<Ev("handle", h, None, <<>>)>>, emit(h, record))
    ELSE After(<<Ev("handle", h, None, <<>>)>>, NoEvents)

(* Handler.handle *)
handle(h, record) ==
    IF record.levelno >= Or(handlers[h].level, _level)
    THEN After(<<Ev("handle", h, None, <<>>)>>, emit(h, record))
    ELSE After(<<Ev("handle", h, None, <<>>)>>, NoEvents)

(* r, then the rest of the loop unless r raised *)
Then(r, rest) ==
    IF r.raised # None THEN r
    ELSE [events |-> r.events \o rest.events, raised |-> rest.raised,
          conv |-> r.conv + rest.conv]

(* for hdlr in self.handlers: hdlr.handle(record) *)
RECURSIVE fanout(_, _)
fanout(hs, record) ==
    IF hs = <<>> THEN NoEvents
    ELSE Then(handle(Head(hs), record), fanout(Tail(hs), record))

(* the level test with > for >= *)
isEnabledForStrict(lg, level) == level > Or(lg.level, _level)

(* Logger.isEnabledFor, and the same test in Logger.log *)
isEnabledFor(lg, level) == level >= Or(lg.level, _level)

Built(record, r) ==
    [built |-> TRUE, events |-> r.events, raised |-> r.raised, conv |-> r.conv,
     levelname |-> record.levelname]

(* if self.handlers: the loop *)
dispatch(lg, record) ==
    IF lg.hasList /\ lg.handlers # <<>> THEN Built(record, fanout(lg.handlers, record))
    ELSE Built(record, NoEvents)

(* Logger.log: [built, events, raised, conv, levelname] *)
log(lg, level, msg, args) ==
    IF isEnabledFor(lg, level) THEN dispatch(lg, LogRecord(lg.name, level, msg, args, None))
    ELSE [built |-> FALSE, events |-> <<>>, raised |-> None, conv |-> 0, levelname |-> None]

(* ------------------------------- actions ------------------------------- *)
(* what the last call was given, did and returned *)
NoCall ==
    [op |-> "import", name |-> None, logger |-> 0, handler |-> 0, level |-> 0,
     ret |-> 0, raised |-> None, built |-> FALSE, events |-> <<>>, levelname |-> None,
     pre |-> <<>>, filename |-> None, usesTime |-> FALSE, conv |-> 0, msgOk |-> FALSE]

Init ==
    /\ _level = INFO
    /\ _level_dict = LevelDictInit
    /\ _loggers = Imported.reg
    /\ loggers = Imported.lgs
    /\ handlers = Imported.hs
    /\ formatters = Imported.fs
    /\ converterCalls = 0
    /\ last = NoCall
    /\ pc = "run"

GetLogger(name) ==
    LET r == getLogger(name, _loggers, loggers, handlers, formatters) IN
    /\ _loggers' = r.reg
    /\ loggers' = r.lgs
    /\ handlers' = r.hs
    /\ formatters' = r.fs
    /\ last' = [NoCall EXCEPT !.op = "getLogger", !.name = name, !.ret = r.ret]
    /\ UNCHANGED <<_level, _level_dict, converterCalls>>

(* Logger.setLevel *)
SetLevel(l, level) ==
    /\ loggers' = [loggers EXCEPT ![l].level = level]
    /\ last' = [NoCall EXCEPT !.op = "setLevel"]
    /\ UNCHANGED <<_level, _level_dict, _loggers, handlers, formatters, converterCalls>>

RECURSIVE Attached(_)
Attached(n) == IF n = 0 THEN 0 ELSE Len(loggers[n].handlers) + Attached(n - 1)

(* Logger.addHandler *)
AddHandler(l, h) ==
    /\ Attached(Cardinality(DOMAIN loggers)) < MaxAttach
    /\ loggers' = [loggers EXCEPT ![l] = addHandler(loggers[l], h)]
    /\ last' = [NoCall EXCEPT !.op = "addHandler"]
    /\ UNCHANGED <<_level, _level_dict, _loggers, handlers, formatters, converterCalls>>

(* Handler(level=level) or StreamHandler(level=level): formatter or Formatter() *)
NewHandler(kind, level) ==
    /\ Cardinality(DOMAIN handlers) < MaxHandlers
    /\ LET h == NewId(handlers)
           f == NewId(formatters)
       IN  /\ handlers' = (h :> NewHandlerObj(kind, level, f,
                                  IF kind = "Handler" THEN None ELSE StreamSink(None)))
                          @@ handlers
           /\ formatters' = (f :> NewFormatter(<<>>, "%")) @@ formatters
           /\ last' = [NoCall EXCEPT !.op = "newHandler"]
    /\ UNCHANGED <<_level, _level_dict, _loggers, loggers, converterCalls>>

AddLevelName(level, name) ==
    /\ _level_dict' = (level :> name) @@ _level_dict
    /\ last' = [NoCall EXCEPT !.op = "addLevelName", !.level = level, !.levelname = name]
    /\ UNCHANGED <<_level, _loggers, loggers, handlers, formatters, converterCalls>>

LogCall(l, level, r) ==
    [NoCall EXCEPT !.op = "log", !.logger = l, !.level = level, !.name = loggers[l].name,
                   !.built = r.built, !.events = r.events, !.raised = r.raised,
                   !.levelname = r.levelname, !.pre = loggers[l].handlers, !.conv = r.conv]

(* Logger.log, and through it debug/info/warning/... *)
Log(l, level, m) ==
    /\ last' = LogCall(l, level, log(loggers[l], level, m.msg, m.args))
    /\ converterCalls' = converterCalls + last'.conv
    /\ converterCalls' <= MaxCalls
    /\ UNCHANGED <<_level, _level_dict, _loggers, loggers, handlers, formatters>>

HandleCall(h, level, r) ==
    [NoCall EXCEPT !.op = "handle", !.handler = h, !.level = level,
                   !.events = r.events, !.raised = r.raised, !.conv = r.conv]

(* H.handle(r) on a record of any origin *)
Handle(h, level, m) ==
    /\ last' = HandleCall(h, level, handle(h, LogRecord("svc", level, m.msg, m.args, None)))
    /\ converterCalls' = converterCalls + last'.conv
    /\ converterCalls' <= MaxCalls
    /\ UNCHANGED <<_level, _level_dict, _loggers, loggers, handlers, formatters>>

(* FileHandler(filename) or StreamHandler(stream) as basicConfig calls them: *)
(* the stream is passed positionally, so it lands in Handler.__init__'s      *)
(* formatter parameter and the stream keyword stays None.                    *)
basicConfigHandler(filename, stream, fid) ==
    IF Truthy(filename) THEN NewHandlerObj("FileHandler", NOTSET, fid, filename)
    ELSE NewHandlerObj("StreamHandler", NOTSET, fid, StreamSink(None))

(* basicConfig without root.handlers.clear() *)
basicConfigKeep(lg, h) == addHandler(lg, h)

(* root.handlers.clear(); root.addHandler(h) *)
basicConfigAttach(lg, h) == addHandler([lg EXCEPT !.handlers = <<>>], h)

BasicConfig(level, filename, stream, fmt, style, openOk) ==
    /\ Cardinality(DOMAIN handlers) < MaxHandlers
    /\ _level' = level
    /\ LET h == NewId(handlers)
           f == NewId(formatters)
           raised == IF Truthy(filename) /\ ~openOk THEN "OSError"
                     ELSE IF ~FormatterStyleOk(style) THEN "ValueError"
                     ELSE IF ~loggers[root].hasList THEN "AttributeError"
                     ELSE None
           call == [NoCall EXCEPT !.op = "basicConfig", !.level = level,
                                  !.filename = filename, !.raised = raised,
                                  !.pre = loggers[root].handlers]
       IN  IF raised # None THEN
               /\ last' = call
               /\ UNCHANGED <<loggers, handlers, formatters>>
           ELSE
               /\ handlers' = (h :> basicConfigHandler(filename, stream, f)) @@ handlers
               /\ formatters' = (f :> NewFormatter(fmt, style)) @@ formatters
               /\ loggers' = [loggers EXCEPT ![root] = basicConfigAttach(loggers[root], h)]
               /\ last' = [call EXCEPT !.handler = h]
    /\ UNCHANGED <<_level_dict, _loggers, converterCalls>>

(* Formatter.usesTime(), called by itself *)
UsesTime(f) ==
    /\ last' = [NoCall EXCEPT !.op = "usesTime", !.usesTime = usesTime(formatters[f])]
    /\ UNCHANGED <<_level, _level_dict, _loggers, loggers, handlers, formatters, converterCalls>>

FormatCall(m, r) ==
    [NoCall EXCEPT !.op = "format", !.raised = r.raised, !.conv = r.conv,
                   !.msgOk = (Interp(m.msg, m.args).raised = None),
                   !.events = <<Ev("return", 0, None, r.out)>>]

(* Formatter.format(record), called by itself *)
Format(f, level, m, exc_info) ==
    /\ last' = FormatCall(m, format(formatters[f], LogRecord("svc", level, m.msg, m.args, exc_info)))
    /\ converterCalls' = converterCalls + last'.conv
    /\ converterCalls' <= MaxCalls
    /\ UNCHANGED <<_level, _level_dict, _loggers, loggers, handlers, formatters>>

(* ---------------- thresholds and fan-out (C1, C2, C3, C9) ---------------- *)
Detail == [msg |-> <<"detail">>, args |-> <<>>]
Started == [msg |-> <<"started ", "%s">>, args |-> <<"v1">>]

Next ==
    \/ /\ \E name \in {None, "svc"} : GetLogger(name)
       /\ UNCHANGED pc
    \/ /\ \E l \in DOMAIN loggers, level \in {NOTSET, WARNING} : SetLevel(l, level)
       /\ UNCHANGED pc
    \/ /\ \E l \in DOMAIN loggers, h \in DOMAIN handlers : AddHandler(l, h)
       /\ UNCHANGED pc
    \/ /\ \E k \in {<<"Handler", NOTSET>>, <<"StreamHandler", WARNING>>} : NewHandler(k[1], k[2])
       /\ UNCHANGED pc
    \/ /\ BasicConfig(DEBUG, None, None, <<>>, "%", TRUE)
       /\ UNCHANGED pc
    \/ /\ \E l \in DOMAIN loggers, level \in {DEBUG, INFO, WARNING} : Log(l, level, Detail)
       /\ UNCHANGED pc
    \/ /\ \E h \in DOMAIN handlers, level \in {DEBUG, INFO, WARNING} : Handle(h, level, Detail)
       /\ UNCHANGED pc

Spec == Init /\ [][Next]_vars

(* ------------------- registry and basicConfig (C5-C7) ------------------- *)
NextRegistry ==
    \/ /\ \E name \in Names \ {"svc"} : GetLogger(name)
       /\ UNCHANGED pc
    \/ /\ \E l \in DOMAIN loggers : SetLevel(l, WARNING)
       /\ UNCHANGED pc
    \/ /\ \E l \in DOMAIN loggers, h \in DOMAIN handlers : AddHandler(l, h)
       /\ UNCHANGED pc
    \/ /\ NewHandler("StreamHandler", NOTSET)
       /\ UNCHANGED pc
    \/ /\ \E level \in {DEBUG, WARNING}, filename \in Filenames, stream \in Streams,
            fmt \in Formats, style \in {"%", "$"}, openOk \in BOOLEAN :
               BasicConfig(level, filename, stream, fmt, style, openOk)
       /\ UNCHANGED pc

SpecRegistry == Init /\ [][NextRegistry]_vars

(* --------------------------- level names (C8) --------------------------- *)
NextLevels ==
    \/ /\ \E level \in {25, INFO}, name \in LevelNames : AddLevelName(level, name)
       /\ UNCHANGED pc
    \/ /\ \E level \in {NOTSET, DEBUG} : SetLevel(root, level)
       /\ UNCHANGED pc
    \/ /\ \E fmt \in Formats : BasicConfig(INFO, None, None, fmt, "%", TRUE)
       /\ UNCHANGED pc
    \/ /\ \E level \in Severities, m \in {Detail, Started} : Log(root, level, m)
       /\ UNCHANGED pc

SpecLevels == Init /\ [][NextLevels]_vars

(* ----------------------------- Formatter (C10) --------------------------- *)
FmtAtoms == {"%", "(asctime)", "s", "{", "asctime", "}", "_x"}

RECURSIVE SeqsUpTo(_, _)
SeqsUpTo(S, n) ==
    IF n = 0 THEN {<<>>}
    ELSE LET shorter == SeqsUpTo(S, n - 1)
         IN  shorter \cup {Append(q, a) : q \in shorter, a \in S}

(* the state after  Formatter(fmt, style=style)  replaced the root handler's formatter *)
InitFmt ==
    /\ _level = INFO
    /\ _level_dict = LevelDictInit
    /\ _loggers = Imported.reg
    /\ loggers = Imported.lgs
    /\ handlers = Imported.hs
    /\ \E fmt \in SeqsUpTo(FmtAtoms, MaxFmtLen), style \in {"%", "{"} :
           formatters = [f \in DOMAIN Imported.fs |-> NewFormatter(fmt, style)]
    /\ converterCalls = 0
    /\ last = NoCall
    /\ pc = "run"

NextFmt ==
    \/ /\ \E f \in DOMAIN formatters : UsesTime(f)
       /\ UNCHANGED pc
    \/ /\ \E f \in DOMAIN formatters, m \in Messages, e \in {None, "exc"} : Format(f, INFO, m, e)
       /\ UNCHANGED pc

SpecFmt == InitFmt /\ [][NextFmt]_vars

(* ----------------------------- end to end (C4) --------------------------- *)
NextE2E ==
    \/ /\ pc = "run"
       /\ \E name \in Names : GetLogger(name)
       /\ UNCHANGED pc
    \/ /\ pc = "run"
       /\ \E h \in DOMAIN handlers : AddHandler(root, h)
       /\ UNCHANGED pc
    \/ /\ pc = "run"
       /\ \E level \in Thresholds, fmt \in Formats, style \in {"%", "{"} :
              BasicConfig(level, None, None, fmt, style, TRUE)
       /\ UNCHANGED pc
    \/ /\ pc = "run"
       /\ \E level \in Severities : Log(root, level, Detail)
       /\ UNCHANGED pc
    \/ /\ pc = "run"
       /\ BasicConfig(INFO, None, "S", LevelNameFmt, "%", TRUE)
       /\ pc' = "configured"
    \/ /\ pc = "configured"
       /\ GetLogger("svc")
       /\ pc' = "info"
    \/ /\ pc = "info"
       /\ Log(last.ret, INFO, Started)
       /\ pc' = "logged"
    \/ /\ pc = "logged"
       /\ GetLogger("svc")
       /\ pc' = "debug"
    \/ /\ pc = "debug"
       /\ Log(last.ret, DEBUG, Detail)
       /\ pc' = "done"

SpecE2E == Init /\ [][NextE2E]_vars

(* ================================ claims ================================ *)
(* the effective threshold of the glossary: own level if set, else default *)
EffectiveThreshold(own) == IF own = NOTSET THEN _level ELSE own

IsHandle(e) == e.ev = "handle"
IsEmit(e) == e.ev = "emit"
IsWrite(e) == e.ev = "write"

(* the handlers whose handle was called, in call order *)
Handled(evs) == [i \in 1..Len(SelectSeq(evs, IsHandle)) |-> SelectSeq(evs, IsHandle)[i].h]

(* emit calls made by the handle call recorded at position i *)
EmitsOf(evs, i) ==
    Cardinality({j \in (i + 1)..Len(evs) :
                    /\ evs[j].ev = "emit"
                    /\ evs[j].h = evs[i].h
                    /\ \A k \in (i + 1)..j : evs[k].ev # "handle"})

(* C1: a log call builds no record and calls handle on no handler exactly  *)
(* when its severity is below the logger's effective threshold.            *)
C1_LoggerFilter ==
    last.op = "log" =>
        ((~last.built /\ Handled(last.events) = <<>>)
            <=> last.level < EffectiveThreshold(loggers[last.logger].level))

(* a logger with its own level and a handler drops a record that the      *)
(* process-wide threshold alone would pass                                 *)
C1_Witness ==
    /\ last.op = "log"
    /\ loggers[last.logger].level # NOTSET
    /\ loggers[last.logger].handlers # <<>>
    /\ last.level >= _level
    /\ last.level < loggers[last.logger].level
    /\ ~last.built

(* C2: every handle call, made directly or by a logger's fan-out, calls    *)
(* emit once when the record's level is at least the handler's effective   *)
(* threshold and not at all otherwise.                                     *)
C2_HandlerFilter ==
    last.op \in {"log", "handle"} =>
        \A i \in 1..Len(last.events) :
            last.events[i].ev = "handle" =>
                EmitsOf(last.events, i) =
                    IF last.level >= EffectiveThreshold(handlers[last.events[i].h].level)
                    THEN 1 ELSE 0

(* a record the logger passed is dropped by a handler with a higher level *)
C2_Witness ==
    /\ last.op = "log"
    /\ last.built
    /\ \E i \in 1..Len(last.events) :
          /\ last.events[i].ev = "handle"
          /\ EmitsOf(last.events, i) = 0
          /\ handlers[last.events[i].h].level
                > EffectiveThreshold(loggers[last.logger].level)

(* C3: when a handler raises during the fan-out of an accepted log call,   *)
(* handle is still called on every handler of the list.                    *)
C3_FailureIsolation ==
    (last.op = "log" /\ last.built /\ last.raised # None) =>
        Len(Handled(last.events)) = Len(last.pre)

(* C4: after basicConfig(INFO, stream=S, format=levelname:name:message),   *)
(* getLogger("svc").info("started %s", "v1") writes the one line           *)
(* INFO:svc:started v1 to S and the following debug call writes nothing.   *)
C4_EndToEnd ==
    /\ pc = "logged" =>
          /\ Len(SelectSeq(last.events, IsWrite)) = 1
          /\ SelectSeq(last.events, IsWrite)[1].sink = "S"
          /\ SelectSeq(last.events, IsWrite)[1].line
                = <<"INFO", ":", "svc", ":", "started ", "v1", "\n">>
    /\ pc = "done" => SelectSeq(last.events, IsWrite) = <<>>

(* C5: no step replaces or removes a registry entry, getLogger returns the *)
(* registered logger of its name (the one already there, if any), and no   *)
(* two loggers carry the same name.                                        *)
RegistryKey(name) == IF name = None THEN "root" ELSE name

C5_GetLoggerIdempotent ==
    [][ /\ \A n \in DOMAIN _loggers : n \in DOMAIN _loggers' /\ _loggers'[n] = _loggers[n]
        /\ \A a, b \in DOMAIN loggers' : loggers'[a].name = loggers'[b].name => a = b
        /\ last'.op = "getLogger" =>
              /\ RegistryKey(last'.name) \in DOMAIN _loggers'
              /\ last'.ret = _loggers'[RegistryKey(last'.name)]
              /\ RegistryKey(last'.name) \in DOMAIN _loggers =>
                    /\ last'.ret = _loggers[RegistryKey(last'.name)]
                    /\ loggers' = loggers ]_vars

(* a later lookup returns the logger that was configured in between *)
C5_Witness ==
    /\ last.op = "getLogger"
    /\ last.name = ""
    /\ loggers[last.ret].level = WARNING
    /\ loggers[last.ret].handlers # <<>>

(* C6: getLogger(None) and getLogger("") both return the root logger.     *)
C6_RootForEmptyName ==
    (last.op = "getLogger" /\ last.name \in {None, ""}) =>
        /\ last.ret = root
        /\ loggers[last.ret].name = "root"

(* C7: a basicConfig call that returns leaves root with exactly one        *)
(* handler, constructed by the call (file sink if a filename was given,    *)
(* else stream sink) and carrying a formatter constructed by the call, and *)
(* the process-wide threshold equals the level given.                      *)
C7_BasicConfigReplaces ==
    [][ (last'.op = "basicConfig" /\ last'.raised = None) =>
          /\ loggers'[root].hasList
          /\ Len(loggers'[root].handlers) = 1
          /\ loggers'[root].handlers[1] \notin DOMAIN handlers
          /\ loggers'[root].handlers[1] \in DOMAIN handlers'
          /\ handlers'[loggers'[root].handlers[1]].kind =
                (IF last'.filename # None THEN "FileHandler" ELSE "StreamHandler")
          /\ handlers'[loggers'[root].handlers[1]].formatter \notin DOMAIN formatters
          /\ handlers'[loggers'[root].handlers[1]].formatter \in DOMAIN formatters'
          /\ _level' = last'.level ]_vars

(* basicConfig with a filename returned on a root that held the default    *)
(* handler twice                                                           *)
C7_Witness ==
    /\ last.op = "basicConfig"
    /\ last.raised = None
    /\ last.filename # None
    /\ Len(last.pre) = 2
    /\ last.pre[1] = last.pre[2]
    /\ loggers[root].handlers = <<last.handler>>

(* C8: the levelname of a record logged at n is the name registered for n, *)
(* or LVL<n> when none is registered.                                      *)
ExpectedLevelName(n) ==
    IF n \in DOMAIN _level_dict THEN <<_level_dict[n]>> ELSE <<"LVL", ToString(n)>>

C8_LevelName ==
    (last.op = "log" /\ last.built) =>
        LevelNameAtoms(last.levelname) = ExpectedLevelName(last.level)

(* C9: an accepted log call calls handle on the attached handlers in the   *)
(* order they were added, once per attachment.                             *)
C9_AttachmentOrder ==
    (last.op = "log" /\ last.built) => Handled(last.events) = last.pre

(* C10: whether a format string references the timestamp field, by the    *)
(* rules of its style: an unescaped %(asctime) of the % style, a           *)
(* replacement field named asctime of the { style.                         *)
RECURSIVE PercentRefsTime(_)
PercentRefsTime(fmt) ==
    IF Len(fmt) < 2 THEN FALSE
    ELSE IF Head(fmt) # "%" THEN PercentRefsTime(Tail(fmt))
    ELSE IF fmt[2] = "%" THEN PercentRefsTime(SubSeq(fmt, 3, Len(fmt)))
    ELSE fmt[2] = "(asctime)" \/ PercentRefsTime(Tail(fmt))

RECURSIVE BraceRefsTime(_)
BraceRefsTime(fmt) ==
    IF Len(fmt) < 3 THEN FALSE
    ELSE IF Head(fmt) \notin {"{", "}"} THEN BraceRefsTime(Tail(fmt))
    ELSE IF fmt[2] = Head(fmt) THEN BraceRefsTime(SubSeq(fmt, 3, Len(fmt)))
    ELSE IF Head(fmt) = "}" THEN BraceRefsTime(Tail(fmt))
    ELSE (fmt[2] = "asctime" /\ fmt[3] = "}") \/ BraceRefsTime(Tail(fmt))

RefsTime(f) == IF f.style = "%" THEN PercentRefsTime(f.fmt) ELSE BraceRefsTime(f.fmt)

(* the text usesTime looks for *)
HasTimeMarker(f) ==
    \E i \in 1..(Len(f.fmt) - 1) :
        /\ f.fmt[i] = (IF f.style = "%" THEN "%" ELSE "{")
        /\ f.fmt[i + 1] = (IF f.style = "%" THEN "(asctime)" ELSE "asctime")

====
